---- MODULE Spec2Model ----
(***************************************************************************)
(* Model of the open-addressing hash table of src/src/hash/hashtable.rs    *)
(* (HashTable<i32, i32>), its cell type (hashcell.rs) and the i32 hashing  *)
(* capability (hashable.rs).                                               *)
(*                                                                         *)
(* A table value is the record [cells, taken_count].  cells is a function  *)
(* over the 0-based slot indexes 0 .. len-1, each slot a HashCell record   *)
(* [key, value, taken].  Option<T> is a sequence: None is << >>, Some(x)   *)
(* is <<x>>.                                                               *)
(***************************************************************************)
EXTENDS Integers, Sequences, FiniteSets, TLC

\* ------------------------------------------------------------------ bounds
\* Number of sequential bulk keys a run may insert (in order).
NumFill == 21
\* Number of bulk keys in the table up to which a run may take a key out
\* or call extend() directly; beyond it a run only inserts and reads.
MaxLoad == 9
\* Number of direct calls of the public extend() in one run.
MaxExtend == 1
\* Number of remove calls that take a key out in one run.
MaxRemove == 2
\* Number of bytes of a text key hash_key is called with.
MaxText == 12

\* ------------------------------------------------------- program constants
INIT_CAPACITY == 11

\* ------------------------------------------------------------------ inputs
\* Keys every operation may be called with, in any order.  0 is the key
\* type's default value; 0 and 11 share the home index 0 at capacity 11;
\* 21 has the last slot as its home index there, so that its probe wraps
\* around to slot 0 when that slot is taken.
Keys == {0, 11, 21}
\* Keys of the insert-only runs: 10 shares the home index of 21 at capacity
\* 11.
InsKeys == Keys \cup {10}
\* Keys hash_key is called with.  The i32 keys include negative ones and the
\* ends of the range of the model's integers; the chars include the ends of
\* the code-point range; the texts are all sequences of up to MaxText of the
\* bytes '!' and 'a'.
I32Inputs == {-2147483647, -65536, -1, 0, 1, 11, 65535, 65536, 2147483647}
CharInputs == {0, 97, 98, 99, 127, 128, 255, 65535, 1114111}
TextBytes == {33, 97}
Texts == UNION {[1..n -> TextBytes] : n \in 0..MaxText}
HashInputs ==
    {[kind |-> "i32", val |-> x] : x \in I32Inputs}
    \cup {[kind |-> "char", val |-> c] : c \in CharInputs}
    \cup {[kind |-> k, val |-> t] : k \in {"str", "String"}, t \in Texts}
\* Values; 0 is the value type's default value.
Values == {0, 1}
\* The i-th bulk key: sequential keys above the free keys.
Filler(i) == 23 + i
\* The value the bulk load inserts with the i-th bulk key.
FillValue(i) == i % 2
Fillers == {Filler(i) : i \in 1..NumFill}
AllKeys == InsKeys \cup Fillers

None == << >>
Some(x) == <<x>>

\* ---------------------------------------------------------------- hashcell
\* #[derive(Default)] for HashCell<i32, i32>
DefaultCell == [key |-> 0, value |-> 0, taken |-> FALSE]

\* ---------------------------------------------------------------- hashable
\* impl HashAble for i32 (the keys of the model are non-negative)
hash_key(key) == key

\* usize, the result type of hash_key, on a 64-bit target: a value is the
\* tuple of its four 16-bit limbs, least significant first.
USIZE_LIMBS == 4
LIMB == 65536

\* The usize with the value n, for 0 <= n < 2^31.
usize_of(n) == <<n % LIMB, n \div LIMB, 0, 0>>

\* x as usize for an i32 x: the value is sign-extended to the full width.
i32_as_usize(x) ==
    LET ext == IF x < 0 THEN LIMB - 1 ELSE 0
    IN  <<x % LIMB, (x \div LIMB) % LIMB, ext, ext>>

\* a << 4
shl4(a) ==
    <<(a[1] * 16) % LIMB,
      ((a[2] * 16) % LIMB) + (a[1] \div 4096),
      ((a[3] * 16) % LIMB) + (a[2] \div 4096),
      ((a[4] * 16) % LIMB) + (a[3] \div 4096)>>

\* a << 5: the five highest bits are shifted out and lost, in every build.
shl5(a) ==
    <<(a[1] * 32) % LIMB,
      ((a[2] * 32) % LIMB) + (a[1] \div 2048),
      ((a[3] * 32) % LIMB) + (a[2] \div 2048),
      ((a[4] * 32) % LIMB) + (a[3] \div 2048)>>

\* a + b with the carry out of the highest limb as a fifth element.
add_limbs(a, b) ==
    LET s1 == a[1] + b[1]
        s2 == a[2] + b[2] + (s1 \div LIMB)
        s3 == a[3] + b[3] + (s2 \div LIMB)
        s4 == a[4] + b[4] + (s3 \div LIMB)
    IN  <<s1 % LIMB, s2 % LIMB, s3 % LIMB, s4 % LIMB, s4 \div LIMB>>

\* a + b reduced modulo 2^64 (a build without overflow checks).
add_wrapping(a, b) == SubSeq(add_limbs(a, b), 1, USIZE_LIMBS)

\* Whether a + b exceeds the width ("attempt to add with overflow" in a
\* build with overflow checks).
add_overflows(a, b) == add_limbs(a, b)[USIZE_LIMBS + 1] > 0

\* The outcomes of a hash_key call.
Returned(v) == [state |-> "returned", value |-> v]
Panicked(v) == [state |-> "panicked", value |-> v]

\* hash = ((hash << 5) + hash) + c, in a build with (checks) or without
\* overflow checks.
djb2_step(hash, c, checks) ==
    LET s == shl5(hash)
        sum1 == add_wrapping(s, hash)
    IN  IF checks /\ (add_overflows(s, hash) \/ add_overflows(sum1, c))
        THEN Panicked(hash)
        ELSE Returned(add_wrapping(sum1, c))

\* impl HashAble for i32
hash_key_i32(key) == Returned(i32_as_usize(key))

\* impl HashAble for char; a char is its code point.
hash_key_char(key, checks) == djb2_step(usize_of(5381), usize_of(key), checks)

\* The loop of impl HashAble for &str over the bytes from the i-th on.
RECURSIVE str_loop(_, _, _, _)
str_loop(bytes, i, hash, checks) ==
    IF i > Len(bytes) THEN Returned(hash)
    ELSE LET step == djb2_step(hash, usize_of(bytes[i]), checks)
         IN  IF step.state = "panicked" THEN step
             ELSE str_loop(bytes, i + 1, step.value, checks)

\* impl HashAble for &str; a text is the sequence of its bytes.
hash_key_str(key, checks) == str_loop(key, 1, usize_of(5381), checks)

\* The loop of impl HashAble for String over the bytes from the i-th on.
RECURSIVE string_loop(_, _, _, _)
string_loop(bytes, i, hash, checks) ==
    IF i > Len(bytes) THEN Returned(hash)
    ELSE LET step == djb2_step(hash, usize_of(bytes[i]), checks)
         IN  IF step.state = "panicked" THEN step
             ELSE string_loop(bytes, i + 1, step.value, checks)

\* impl HashAble for String
hash_key_string(key, checks) == string_loop(key, 1, usize_of(5381), checks)

\* --------------------------------------------------------------- hashtable
\* vec![HashCell::default(); n] with taken_count 0
empty_table(n) == [cells |-> [i \in 0..(n - 1) |-> DefaultCell], taken_count |-> 0]

new == empty_table(INIT_CAPACITY)

len(t) == Cardinality(DOMAIN t.cells)

len_of_used(t) == t.taken_count

\* The for loop of get_index: the index it ends on, after at most n more
\* iterations from index.
\* The loop of get_index stepping over a slot that is not taken instead of
\* stopping at it.
RECURSIVE probe_skip(_, _, _, _)
probe_skip(cells, key, index, n) ==
    IF n = 0 THEN index
    ELSE IF cells[index].taken = TRUE /\ cells[index].key = key THEN index
    ELSE probe_skip(cells, key, (index + 1) % Cardinality(DOMAIN cells), n - 1)

RECURSIVE probe(_, _, _, _)
probe(cells, key, index, n) ==
    IF n = 0 THEN index
    ELSE IF cells[index].taken = FALSE THEN index
    ELSE IF cells[index].key = key THEN index
    ELSE probe(cells, key, (index + 1) % Cardinality(DOMAIN cells), n - 1)

\* get_index whose final test compares the key only.
get_index_key_only(t, key) ==
    LET index == probe(t.cells, key, hash_key(key) % len(t), len(t))
    IN  IF t.cells[index].key = key
        THEN Some(index)
        ELSE None

\* get_index whose final test looks at the taken flag only.
get_index_taken_only(t, key) ==
    LET index == probe(t.cells, key, hash_key(key) % len(t), len(t))
    IN  IF t.cells[index].taken = TRUE THEN Some(index) ELSE None

get_index(t, key) ==
    LET index == probe(t.cells, key, hash_key(key) % len(t), len(t))
    IN  IF t.cells[index].taken = TRUE /\ t.cells[index].key = key
        THEN Some(index)
        ELSE None

get(t, key) ==
    LET r == get_index(t, key)
    IN  IF r # None THEN Some(t.cells[r[1]].value) ELSE None

\* The while loop of insert: the first index from `index` on whose slot is
\* not taken; -1 when all n slots still to be looked at are taken (the loop
\* of the code then never ends).
RECURSIVE free_index(_, _, _)
free_index(cells, index, n) ==
    IF n = 0 THEN -1
    ELSE IF cells[index].taken = TRUE
         THEN free_index(cells, (index + 1) % Cardinality(DOMAIN cells), n - 1)
         ELSE index

RECURSIVE insert(_, _, _)
RECURSIVE extend_from(_, _, _)

\* extend allocating as many cells as the table has.
extend_same_len(t) == extend_from(t, empty_table(len(t)), 0)

\* extend allocating len * 2 cells.
extend_double(t) == extend_from(t, empty_table(len(t) * 2), 0)

\* extend that keeps the old taken_count.
extend_keep_count(t) ==
    [extend_from(t, empty_table(len(t) * 2 + 1), 0) EXCEPT !.taken_count = t.taken_count]

\* extend whose loop starts at the second cell.
extend_skip_first(t) == extend_from(t, empty_table(len(t) * 2 + 1), 1)

\* The loop of extend over the old cells from index i on, inserting into
\* new_self.
extend_from(t, new_self, i) ==
    IF i >= len(t) THEN new_self
    ELSE IF t.cells[i].taken = TRUE
         THEN extend_from(t, insert(new_self, t.cells[i].key, t.cells[i].value), i + 1)
         ELSE extend_from(t, new_self, i + 1)

extend(t) == extend_from(t, empty_table(len(t) * 2 + 1), 0)

\* insert that tests for a full table before it looks the key up.
insert_grow_first(t, key, value) ==
    LET t1 == IF t.taken_count >= len(t) THEN extend(t) ELSE t
        found == get_index(t1, key)
    IN  IF found # None
        THEN [t1 EXCEPT !.cells[found[1]].value = value]
        ELSE LET cells_len == len(t1)
                 index == free_index(t1.cells, hash_key(key) % cells_len, cells_len)
             IN  IF index = -1
                 THEN t1
                 ELSE [cells |-> [t1.cells EXCEPT ![index] =
                                     [key |-> key, value |-> value, taken |-> TRUE]],
                       taken_count |-> t1.taken_count + 1]

\* insert that returns without writing when it finds the key.
insert_keep_old(t, key, value) ==
    LET found == get_index(t, key)
    IN  IF found # None
        THEN t
        ELSE LET t1 == IF t.taken_count >= len(t) THEN extend(t) ELSE t
                 cells_len == len(t1)
                 index == free_index(t1.cells, hash_key(key) % cells_len, cells_len)
             IN  IF index = -1
                 THEN t1
                 ELSE [cells |-> [t1.cells EXCEPT ![index] =
                                     [key |-> key, value |-> value, taken |-> TRUE]],
                       taken_count |-> t1.taken_count + 1]

\* insert that computes the home index from the capacity before growth.
insert_stale_len(t, key, value) ==
    LET found == get_index(t, key)
    IN  IF found # None
        THEN [t EXCEPT !.cells[found[1]].value = value]
        ELSE LET cells_len == len(t)
                 t1 == IF t.taken_count >= len(t) THEN extend(t) ELSE t
                 index == free_index(t1.cells, hash_key(key) % cells_len, len(t1))
             IN  IF index = -1
                 THEN t1
                 ELSE [cells |-> [t1.cells EXCEPT ![index] =
                                     [key |-> key, value |-> value, taken |-> TRUE]],
                       taken_count |-> t1.taken_count + 1]

\* insert that does not count the pair it stores.
insert_no_inc(t, key, value) ==
    LET found == get_index(t, key)
    IN  IF found # None
        THEN [t EXCEPT !.cells[found[1]].value = value]
        ELSE LET t1 == IF t.taken_count >= len(t) THEN extend(t) ELSE t
                 cells_len == len(t1)
                 index == free_index(t1.cells, hash_key(key) % cells_len, cells_len)
             IN  IF index = -1
                 THEN t1
                 ELSE [cells |-> [t1.cells EXCEPT ![index] =
                                     [key |-> key, value |-> value, taken |-> TRUE]],
                       taken_count |-> t1.taken_count]

insert(t, key, value) ==
    LET found == get_index(t, key)
    IN  IF found # None
        THEN [t EXCEPT !.cells[found[1]].value = value]
        ELSE LET t1 == IF t.taken_count >= len(t) THEN extend(t) ELSE t
                 cells_len == len(t1)
                 index == free_index(t1.cells, hash_key(key) % cells_len, cells_len)
             IN  IF index = -1
                 THEN t1
                 ELSE [cells |-> [t1.cells EXCEPT ![index] =
                                     [key |-> key, value |-> value, taken |-> TRUE]],
                       taken_count |-> t1.taken_count + 1]

\* Whether the while loop of insert(t, key, _) never ends.
insert_spins(t, key) ==
    /\ get_index(t, key) = None
    /\ LET t1 == IF t.taken_count >= len(t) THEN extend(t) ELSE t
       IN  free_index(t1.cells, hash_key(key) % len(t1), len(t1)) = -1

\* get_mut: the slot whose value the returned reference points to.
get_mut(t, key) == get_index(t, key)

\* remove that does not decrement taken_count.
remove_no_dec(t, key) ==
    LET found == get_index(t, key)
    IN  IF found # None
        THEN [cells |-> [t.cells EXCEPT ![found[1]] = DefaultCell],
              taken_count |-> t.taken_count]
        ELSE t

\* remove: the table after the call.
remove(t, key) ==
    LET found == get_index(t, key)
    IN  IF found # None
        THEN [cells |-> [t.cells EXCEPT ![found[1]] = DefaultCell],
              taken_count |-> t.taken_count - 1]
        ELSE t

\* remove: the returned Option<Value>.
remove_ret(t, key) ==
    LET found == get_index(t, key)
    IN  IF found # None THEN Some(t.cells[found[1]].value) ELSE None

\* ------------------------------------------------------------------- state
VARIABLES
    cells,        \* HashTable.cells
    taken_count,  \* HashTable.taken_count
    last,         \* per key, the value of its most recent insert (None: never inserted)
    removed,      \* number of remove calls so far that returned a value
    extended,     \* number of direct extend calls so far
    spin,         \* TRUE once a call entered a loop that never ends
    gone,         \* keys whose remove returned a value, with no insert of the key since (SpecTrack)
    hkey,         \* the key hash_key is called with: [kind, val]
    hret          \* the outcome of that call: [state, value]

vars == <<cells, taken_count, last, removed, extended, spin, gone, hkey, hret>>

\* No hash_key call has ended yet.
Pending == [state |-> "pending", value |-> usize_of(0)]

\* The table of the current state.
T == [cells |-> cells, taken_count |-> taken_count]

\* The table of the next state.
Tp == [cells |-> cells', taken_count |-> taken_count']

\* Number of bulk keys inserted so far (they are inserted in order).
filled == Cardinality({k \in Fillers : last[k] # None})

Init ==
    /\ cells = new.cells
    /\ taken_count = new.taken_count
    /\ last = [k \in AllKeys |-> None]
    /\ removed = 0
    /\ extended = 0
    /\ spin = FALSE
    /\ gone = {}
    /\ hkey = [kind |-> "i32", val |-> 0]
    /\ hret = Pending

\* ht.insert(key, value): its effect on the table and on the record of the
\* inserted values
InsertCall(key, value) ==
    /\ spin = FALSE
    /\ IF insert_spins(T, key)
       THEN /\ spin' = TRUE
            /\ UNCHANGED <<cells, taken_count, last>>
       ELSE /\ LET t2 == insert(T, key, value)
               IN  /\ cells' = t2.cells
                   /\ taken_count' = t2.taken_count
            /\ last' = [last EXCEPT ![key] = Some(value)]
            /\ spin' = FALSE
    /\ UNCHANGED <<removed, extended, hkey, hret>>

\* ht.insert(key, value)
Insert(key, value) ==
    /\ InsertCall(key, value)
    /\ UNCHANGED gone

\* ht.insert(key, value), recorded in gone
InsertTracked(key, value) ==
    /\ InsertCall(key, value)
    /\ gone' = IF spin' THEN gone ELSE gone \ {key}

\* ht.insert of the next bulk key, with the value the bulk load gives it
InsertFiller ==
    /\ filled < NumFill
    /\ filled >= MaxLoad => (removed = 0 /\ extended = 0)
    /\ Insert(Filler(filled + 1), FillValue(filled + 1))

\* ht.get(&key)
Get(key) ==
    /\ spin = FALSE
    /\ get(T, key) \in {None} \cup {Some(v) : v \in Values}
    /\ UNCHANGED vars

\* ht.get_mut(&key)
GetMut(key) ==
    /\ spin = FALSE
    /\ get_mut(T, key) \in {None} \cup {Some(i) : i \in DOMAIN cells}
    /\ UNCHANGED vars

\* ht.remove(&key): its effect on the table and on the count of removals
RemoveCall(key) ==
    /\ spin = FALSE
    /\ get_index(T, key) # None => (removed < MaxRemove /\ filled <= MaxLoad)
    /\ LET t2 == remove(T, key)
       IN  /\ cells' = t2.cells
           /\ taken_count' = t2.taken_count
    /\ removed' = IF get_index(T, key) = None THEN removed ELSE removed + 1
    /\ UNCHANGED <<last, extended, spin, hkey, hret>>

\* ht.remove(&key)
Remove(key) ==
    /\ RemoveCall(key)
    /\ UNCHANGED gone

\* ht.remove(&key), recorded in gone when it returns a value
RemoveTracked(key) ==
    /\ RemoveCall(key)
    /\ gone' = IF removed' = removed THEN gone ELSE gone \cup {key}

\* ht.extend(), called directly
Extend ==
    /\ spin = FALSE
    /\ extended < MaxExtend
    /\ filled <= MaxLoad
    /\ LET t2 == extend(T)
       IN  /\ cells' = t2.cells
           /\ taken_count' = t2.taken_count
    /\ extended' = extended + 1
    /\ UNCHANGED <<last, removed, spin, gone, hkey, hret>>

Next ==
    \/ \E key \in Keys, value \in Values : Insert(key, value)
    \/ InsertFiller
    \/ \E key \in Keys : Get(key)
    \/ \E key \in Keys : GetMut(key)
    \/ \E key \in Keys : Remove(key)
    \/ Extend

Spec == Init /\ [][Next]_vars

\* Insert-only runs.
NextIns ==
    \/ \E key \in InsKeys, value \in Values : Insert(key, value)
    \/ InsertFiller

SpecIns == Init /\ [][NextIns]_vars

\* Runs of all operations that record in gone the keys a remove has taken
\* out and no insert has put back.  The free keys are inserted with the
\* value 1 only: which slot an operation reads or writes depends on the keys
\* and the taken flags, never on a value.  (No bulk key is ever removed, so
\* InsertFiller leaves gone as it is.)
NextTrack ==
    \/ \E key \in Keys : InsertTracked(key, 1)
    \/ InsertFiller
    \/ \E key \in Keys : Get(key)
    \/ \E key \in Keys : GetMut(key)
    \/ \E key \in Keys : RemoveTracked(key)
    \/ Extend

SpecTrack == Init /\ [][NextTrack]_vars

\* ------------------------------------------------------------ hash_key runs
\* Runs that call hash_key once, with any key of HashInputs, in a build with
\* or without overflow checks.
InitHash ==
    /\ cells = new.cells
    /\ taken_count = new.taken_count
    /\ last = [k \in AllKeys |-> None]
    /\ removed = 0
    /\ extended = 0
    /\ spin = FALSE
    /\ gone = {}
    /\ hkey \in HashInputs
    /\ hret = Pending

\* key.hash_key() for an i32 key
HashI32 ==
    /\ hkey.kind = "i32"
    /\ hret.state = "pending"
    /\ hret' = hash_key_i32(hkey.val)
    /\ UNCHANGED <<cells, taken_count, last, removed, extended, spin, gone, hkey>>

\* key.hash_key() for a char key
HashChar(checks) ==
    /\ hkey.kind = "char"
    /\ hret.state = "pending"
    /\ hret' = hash_key_char(hkey.val, checks)
    /\ UNCHANGED <<cells, taken_count, last, removed, extended, spin, gone, hkey>>

\* key.hash_key() for a &str key
HashStr(checks) ==
    /\ hkey.kind = "str"
    /\ hret.state = "pending"
    /\ hret' = hash_key_str(hkey.val, checks)
    /\ UNCHANGED <<cells, taken_count, last, removed, extended, spin, gone, hkey>>

\* key.hash_key() for a String key
HashString(checks) ==
    /\ hkey.kind = "String"
    /\ hret.state = "pending"
    /\ hret' = hash_key_string(hkey.val, checks)
    /\ UNCHANGED <<cells, taken_count, last, removed, extended, spin, gone, hkey>>

NextHash ==
    \/ HashI32
    \/ \E checks \in BOOLEAN : HashChar(checks)
    \/ \E checks \in BOOLEAN : HashStr(checks)
    \/ \E checks \in BOOLEAN : HashString(checks)

SpecHash == InitHash /\ [][NextHash]_vars

\* ------------------------------------------------------------------ claims
\* The keys inserted so far.
Inserted == {k \in AllKeys : last[k] # None}

\* The occupied slots.
Taken == {i \in DOMAIN cells : cells[i].taken}

\* C1: in an insert-only run, get(k) returns for every inserted key k the
\* value of the most recent insert(k, v).
RoundTrip == \A k \in Inserted : get(T, k) = last[k]

\* C1 witness: all free keys are in, holding either value, the table has
\* grown, and after the growth a key sits away from its home index.
WitRoundTrip ==
    /\ len(T) = 23
    /\ InsKeys \subseteq Inserted
    /\ get(T, 0) = Some(1)
    /\ get(T, 11) = Some(0)
    /\ \E k \in Inserted : get_index(T, k) # Some(hash_key(k) % len(T))

\* C2: in an insert-only run, once N > INIT_CAPACITY distinct keys are in,
\* the table has grown, len_of_used() = N and every key is returned by get
\* with its value.
GrowthCorrect ==
    LET N == Cardinality(Inserted)
    IN  N > INIT_CAPACITY =>
            /\ len(T) > INIT_CAPACITY
            /\ len_of_used(T) = N
            /\ \A k \in Inserted : get(T, k) # None /\ get(T, k) = last[k]

\* C2 witness: 24 or more distinct keys after two growth events.
WitGrowthCorrect ==
    /\ Cardinality(Inserted) >= 24
    /\ len(T) = 47
    /\ len_of_used(T) = Cardinality(Inserted)

\* The occupied slots of the next state.
TakenP == {i \in DOMAIN cells' : cells'[i].taken}

\* C3: insert(k, v) on a key that get reports present writes v into that
\* key's slot and changes nothing else: len_of_used() and len() stay (also
\* on a full table), the same slots are occupied by the same keys, and get
\* of every other key returns what it returned before.  (The first
\* conjunct of the premise singles out the steps that change the table.)
OverwriteFrame ==
    [][\A k \in Keys, v \in Values :
        (cells' # cells /\ get(T, k) # None /\ Insert(k, v)) =>
            /\ len_of_used(Tp) = len_of_used(T)
            /\ len(Tp) = len(T)
            /\ cells' = [cells EXCEPT ![get_index(T, k)[1]].value = v]
            /\ TakenP = Taken
            /\ get(Tp, k) = Some(v)
            /\ \A k2 \in AllKeys \ {k} : get(Tp, k2) = get(T, k2)]_vars

\* C3 witness: a completely full table of the initial capacity holding a
\* key whose overwrite changes its value and nothing else.
WitOverwriteFrame ==
    /\ len_of_used(T) = len(T)
    /\ len(T) = INIT_CAPACITY
    /\ \E k \in Keys :
          /\ get(T, k) = Some(1)
          /\ get(insert(T, k, 0), k) = Some(0)
          /\ len(insert(T, k, 0)) = len(T)

\* C4: remove(k) on a key for which get(k) reports v returns v, decrements
\* len_of_used() by 1, leaves len() unchanged, and right after it get(k)
\* and a second remove(k) report absence.
RemovalEffect ==
    [][\A k \in Keys :
        (get(T, k) # None /\ Remove(k)) =>
            /\ remove_ret(T, k) = get(T, k)
            /\ len_of_used(Tp) = len_of_used(T) - 1
            /\ len(Tp) = len(T)
            /\ get(Tp, k) = None
            /\ remove_ret(Tp, k) = None
            /\ remove(Tp, k) = Tp]_vars

\* C4 witness: one key was taken out of a table that never grew; it was
\* inserted before, is absent now, and the count is one less than the
\* number of keys inserted.
WitRemovalEffect ==
    /\ removed = 1
    /\ extended = 0
    /\ len(T) = INIT_CAPACITY
    /\ len_of_used(T) = Cardinality(Inserted) - 1
    /\ \E k \in Inserted : get(T, k) = None /\ \A i \in Taken : cells[i].key # k

\* C5: get(k) and remove(k) of a key that was never inserted report
\* absence and leave the table as it is, also for the default key 0 that
\* every unoccupied or cleared slot holds.
AbsenceNeverInserted ==
    \A k \in AllKeys :
        last[k] = None =>
            /\ get(T, k) = None
            /\ get_mut(T, k) = None
            /\ remove_ret(T, k) = None
            /\ remove(T, k) = T

\* C5 witness: key 0 was never inserted, its probe runs over occupied
\* slots and ends on a slot that a remove cleared to the default cell.
WitAbsenceNeverInserted ==
    /\ last[0] = None
    /\ removed > 0
    /\ cells[hash_key(0) % len(T)].taken
    /\ \E i \in DOMAIN cells :
          /\ probe(cells, 0, hash_key(0) % len(T), len(T)) = i
          /\ cells[i] = DefaultCell
          /\ \E k \in Inserted : hash_key(k) % len(T) = i /\ get(T, k) = None

\* C6: no two occupied slots hold the same key.
NoDuplicates ==
    \A i, j \in Taken : cells[i].key = cells[j].key => i = j

\* Number of probe steps from home index h to slot i in a table of n slots.
ProbeDist(i, h, n) == (i - h + n) % n

\* C7: when k1 and k2 share a home index and the one slot k2 occupies lies
\* after a slot of k1 in the probe chain, then after remove(k1) get(k2)
\* reports absence although k2 still occupies its slot with its value and
\* is counted by len_of_used().
RemovalGap ==
    [][\A k1 \in Keys :
        Remove(k1) =>
            \A j \in Taken :
                LET n == len(T)
                    h == hash_key(k1) % n
                    k2 == cells[j].key
                IN  (/\ k2 # k1
                     /\ hash_key(k2) % n = h
                     /\ {x \in Taken : cells[x].key = k2} = {j}
                     /\ \E i \in Taken :
                           /\ cells[i].key = k1
                           /\ ProbeDist(i, h, n) < ProbeDist(j, h, n)) =>
                        /\ get(Tp, k2) = None
                        /\ cells'[j] = cells[j]
                        /\ j \in TakenP
                        /\ len_of_used(Tp) = Cardinality(TakenP)]_vars

\* C7 witness: after a remove that returned a value, a key is reported
\* absent while one occupied slot still holds it with its last value and
\* its home slot is the cleared one.
WitRemovalGap ==
    /\ removed = 1
    /\ \E k2 \in Keys : \E j \in Taken :
          /\ cells[j].key = k2
          /\ Some(cells[j].value) = last[k2]
          /\ get(T, k2) = None
          /\ cells[hash_key(k2) % len(T)] = DefaultCell
          /\ len_of_used(T) = Cardinality(Taken)

\* C8: len_of_used() is the number of slots whose taken flag is set, and
\* so at most len().
CountInvariant ==
    /\ len_of_used(T) = Cardinality(Taken)
    /\ len_of_used(T) <= len(T)

\* C8 witness: after a remove, a table that holds a key in two slots, so
\* that the count exceeds the number of keys held.
WitCountInvariant ==
    /\ removed > 0
    /\ \E i, j \in Taken : i # j /\ cells[i].key = cells[j].key
    /\ len_of_used(T) = Cardinality(Taken)
    /\ len_of_used(T) > Cardinality({cells[i].key : i \in Taken})

\* The capacities 11, 23, 47, ...
RECURSIVE Capacity(_)
Capacity(i) == IF i = 0 THEN INIT_CAPACITY ELSE Capacity(i - 1) * 2 + 1
Capacities == {Capacity(i) : i \in 0..(MaxExtend + 2)}

\* What C9 says of one state: a new table has len() 11; len() is one of
\* 11, 23, 47, ...; in a run of inserts alone len() is 11 up to 11 distinct
\* keys, 23 from the 12th and 47 from the 24th.
CapacityOfState ==
    /\ len(T) \in Capacities
    /\ (removed = 0 /\ extended = 0) =>
          LET N == Cardinality(Inserted)
          IN  len(T) = IF N <= 11 THEN 11 ELSE IF N <= 23 THEN 23 ELSE 47

\* C9: the state a call leaves (the new table, for the first call) and the
\* state it reaches are as CapacityOfState says; len() never decreases; a
\* call that changes len() is an insert of a key that get reports absent,
\* made when len_of_used() >= len(), or a direct extend, and makes it
\* 2 * len() + 1 (so get, get_mut and remove never change it).
CapacitySequence ==
    [][/\ (removed = 0 /\ extended = 0 /\ taken_count = 0) => CapacityOfState
       /\ vars' # vars => CapacityOfState'
       /\ len(Tp) >= len(T)
       /\ len(Tp) # len(T) =>
             /\ len(Tp) = len(T) * 2 + 1
             /\ \A k \in AllKeys, v \in Values :
                   (extended' = extended /\ last'[k] = Some(v) /\ Insert(k, v)) =>
                       (get(T, k) = None /\ len_of_used(T) >= len(T))
             /\ \A k \in Keys : ~(Get(k) \/ GetMut(k) \/ Remove(k))]_vars

\* C9 witness: 24 distinct keys were inserted, nothing else was called,
\* and len() is 47.
WitCapacitySequence ==
    /\ removed = 0
    /\ extended = 0
    /\ Cardinality(Inserted) = 24
    /\ len_of_used(T) = 24
    /\ len(T) = 47

\* The occupied (key, value) pairs of a table.
Pairs(t) ==
    {<<t.cells[i].key, t.cells[i].value>> : i \in {x \in DOMAIN t.cells : t.cells[x].taken}}

\* C10: extend, called on the table of any reachable state, keeps the set
\* of occupied (key, value) pairs and len_of_used(), and makes len()
\* 2 * len() + 1.
ExtendPreservesEntries ==
    LET e == extend(T)
    IN  /\ Pairs(e) = Pairs(T)
        /\ len_of_used(e) = len_of_used(T)
        /\ len(e) = len(T) * 2 + 1

\* C11: no hard failure.  In every reachable state no call has entered a loop
\* that never ends, the capacity is not zero (no modulo by zero), every
\* lookup ends on an index inside the slot array, a remove that finds its key
\* has a count of at least one to decrement, an insert of any key with any
\* value ends and leaves the pair stored in a slot, extend ends with a
\* non-empty table, and a key stored in no slot is reported absent.
NoHardFailure ==
    /\ spin = FALSE
    /\ len(T) > 0
    /\ len(extend(T)) > 0
    /\ len_of_used(T) >= 0
    /\ \A k \in AllKeys :
          /\ probe(cells, k, hash_key(k) % len(T), len(T)) \in DOMAIN cells
          /\ get_index(T, k) # None => len_of_used(T) >= 1
          /\ (\A i \in Taken : cells[i].key # k) =>
                (get(T, k) = None /\ get_mut(T, k) = None /\ remove_ret(T, k) = None)
    /\ \A k \in AllKeys, v \in Values :
          /\ ~insert_spins(T, k)
          /\ LET t2 == insert(T, k, v)
             IN  \E i \in DOMAIN t2.cells :
                   t2.cells[i] = [key |-> k, value |-> v, taken |-> TRUE]

\* A full table after a removal, with a key that is in no slot: its insert
\* has to grow the table; and a remove has brought the count down without
\* passing zero.
WitNoHardFailure ==
    /\ removed > 0
    /\ len_of_used(T) = len(T)
    /\ \E k \in Keys :
          /\ \A i \in Taken : cells[i].key # k
          /\ len(insert(T, k, 1)) = len(T) * 2 + 1
          /\ get(insert(T, k, 1), k) = Some(1)

\* impl Debug for HashCell: write!(f, "{:?}: {:?}", key, value); the taken
\* flag is not part of the text and is not tested.
debug_cell(c) == <<c.key, c.value>>

\* #[derive(Debug)] for HashTable: the field cells as the list of the debug
\* texts of all elements of the vector, in index order, and the field
\* taken_count.
debug_table(t) ==
    [cells |-> [i \in 1..len(t) |-> debug_cell(t.cells[i - 1])],
     taken_count |-> t.taken_count]

\* The occupied (key, value) pairs of t in slot order, from slot i on.
RECURSIVE occupied_from(_, _)
occupied_from(t, i) ==
    IF i >= len(t) THEN << >>
    ELSE IF t.cells[i].taken
         THEN <<debug_cell(t.cells[i])>> \o occupied_from(t, i + 1)
         ELSE occupied_from(t, i + 1)

\* C12: the debug view of the table lists exactly the occupied (key: value)
\* pairs, in slot order, and renders no unoccupied slot (so that a table with
\* three pairs shows exactly three entries).
DebugListsOccupied ==
    /\ debug_table(T).cells = occupied_from(T, 0)
    /\ Len(debug_table(T).cells) = len_of_used(T)

\* a * m reduced modulo 2^64, for a small m.
mul_wrapping(a, m) ==
    LET p1 == a[1] * m
        p2 == a[2] * m + (p1 \div LIMB)
        p3 == a[3] * m + (p2 \div LIMB)
        p4 == a[4] * m + (p3 \div LIMB)
    IN  <<p1 % LIMB, p2 % LIMB, p3 % LIMB, p4 % LIMB>>

\* The DJB2 accumulator over the first n bytes, reduced modulo 2^64: seeded
\* at 5381, accumulator = accumulator * 33 + byte.
RECURSIVE djb2(_, _)
djb2(bytes, n) ==
    IF n = 0 THEN usize_of(5381)
    ELSE add_wrapping(mul_wrapping(djb2(bytes, n - 1), 33), usize_of(bytes[n]))

\* C13: the hash functions match the recurrences.  A hash_key call that
\* returns, returns: for an i32 key its value cast to unsigned (the value
\* itself when it is not negative, 2^64 + value when it is); for a char key
\* 5381 * 33 + code point; for a &str or String key the DJB2 accumulator over
\* its bytes (modulo 2^64).  Hence "a" and 'a' hash to 177670, a one-byte
\* text hashes like the char with that code point, &str and String keys with
\* the same bytes hash equal, and equal keys hash equal in every build.
HashRecurrences ==
    hret.state = "returned" =>
        /\ hkey.kind = "i32" =>
              /\ hkey.val >= 0 =>
                    (hret.value = usize_of(hkey.val) /\ hret.value = usize_of(hash_key(hkey.val)))
              /\ hkey.val < 0 =>
                    /\ add_wrapping(hret.value, usize_of(-hkey.val)) = usize_of(0)
                    /\ add_overflows(hret.value, usize_of(-hkey.val))
        /\ hkey.kind = "char" =>
              /\ hret.value = usize_of(5381 * 33 + hkey.val)
              /\ hkey.val = 97 => hret.value = usize_of(177670)
              /\ hash_key_char(hkey.val, TRUE) = hash_key_char(hkey.val, FALSE)
        /\ hkey.kind \in {"str", "String"} =>
              /\ hret.value = djb2(hkey.val, Len(hkey.val))
              /\ hkey.val = <<97>> =>
                    (hret.value = usize_of(177670) /\ hret = hash_key_char(97, TRUE))
              /\ Len(hkey.val) = 1 =>
                    \A checks \in BOOLEAN : hret = hash_key_char(hkey.val[1], checks)
              /\ \A checks \in BOOLEAN :
                    hash_key_str(hkey.val, checks) = hash_key_string(hkey.val, checks)
              /\ hash_key_str(hkey.val, TRUE).state = "returned" =>
                    hash_key_str(hkey.val, TRUE) = hash_key_str(hkey.val, FALSE)

\* hash_key of the text "a" has returned 177670.
WitHashRecurrences ==
    /\ hkey = [kind |-> "str", val |-> <<97>>]
    /\ hret = Returned(usize_of(177670))
    /\ hret = hash_key_char(97, FALSE)

\* C19: text hashing wraps instead of failing.  Every hash_key call with a
\* &str or String key returns, and returns the DJB2 accumulator reduced
\* modulo 2^64, also for texts whose accumulator exceeds the width.
TextHashWraps ==
    (hkey.kind \in {"str", "String"} /\ hret.state # "pending") =>
        (hret.state = "returned" /\ hret.value = djb2(hkey.val, Len(hkey.val)))

\* Keys for the calls a property makes from a state: the free keys, the
\* first bulk key and the last one.
CallKeys == InsKeys \cup {Filler(1), Filler(NumFill)}

\* C14: read-your-write.  In every reachable state (after removals of
\* colliding keys, with a full table, with a duplicated key), for every key
\* k and value v, get(k) immediately after insert(k, v) returns v, whether
\* the insert overwrites, fills a free slot or grows the table first.
ReadYourWrite ==
    \A k \in AllKeys, v \in Values :
        ~insert_spins(T, k) => get(insert(T, k, v), k) = Some(v)

\* A table that an insert has grown after a removal, in which get returns
\* for every key in a slot the value of the last insert of that key.
WitReadYourWrite ==
    /\ removed > 0
    /\ extended = 0
    /\ len(T) = INIT_CAPACITY * 2 + 1
    /\ \A i \in Taken : get(T, cells[i].key) = last[cells[i].key]
    /\ \E k \in Keys : last[k] = Some(1) /\ get(T, k) = Some(1)

\* C15: the insert of an absent key increments the count by one.  In every
\* reachable state, insert(k, v) for a key that get reports absent increases
\* len_of_used() by exactly 1, whether or not the insert grows the table.
AbsentInsertCounts ==
    \A k \in CallKeys, v \in Values :
        (get(T, k) = None /\ ~insert_spins(T, k)) =>
            len_of_used(insert(T, k, v)) = len_of_used(T) + 1

\* C16: a removed key stays absent.  Once remove(k) has returned a value,
\* get(k) returns absence in every later state until the next insert(k, _),
\* whatever inserts, removes and growth of other keys happen in between.
RemovedStaysAbsent == \A k \in gone : get(T, k) = None

\* The number of slots the for loop of get_index inspects, over at most n
\* more iterations from index.
RECURSIVE probe_steps(_, _, _, _)
probe_steps(t, key, index, n) ==
    IF n = 0 THEN 0
    ELSE IF t.cells[index].taken = FALSE THEN 1
    ELSE IF t.cells[index].key = key THEN 1
    ELSE 1 + probe_steps(t, key, (index + 1) % len(t), n - 1)

\* insert(t, key, _) reaching its while loop: the table the loop runs on
\* (after the growth of a full table).
probed_table(t) == IF t.taken_count >= len(t) THEN extend(t) ELSE t

\* Whenever insert(t, key, _) starts its while loop, a slot of the table it
\* probes is unoccupied and the loop leaves after fewer than len() steps.
insert_loop_ends(t, key) ==
    get_index(t, key) = None =>
        LET t1 == probed_table(t)
            home == hash_key(key) % len(t1)
            index == free_index(t1.cells, home, len(t1))
        IN  /\ \E i \in DOMAIN t1.cells : t1.cells[i].taken = FALSE
            /\ index \in DOMAIN t1.cells
            /\ ProbeDist(index, home, len(t1)) <= len(t1) - 1

\* The loop of extend from the old cell i on: no re-insertion finds new_self
\* full (so none calls extend again), and each one's while loop ends.
RECURSIVE extend_loops_end(_, _, _)
extend_loops_end(t, new_self, i) ==
    IF i >= len(t) THEN TRUE
    ELSE IF t.cells[i].taken = TRUE
         THEN /\ new_self.taken_count < len(new_self)
              /\ insert_loop_ends(new_self, t.cells[i].key)
              /\ extend_loops_end(t, insert(new_self, t.cells[i].key, t.cells[i].value), i + 1)
         ELSE extend_loops_end(t, new_self, i + 1)

\* C17: every operation terminates within capacity-bounded work.  In every
\* reachable state no call has entered an endless loop; whenever the while
\* loop of insert starts, in insert itself or in a re-insertion of extend, a
\* slot is unoccupied and the loop ends within len() steps; no re-insertion
\* of extend calls extend again; and get_index inspects at most len() slots.
TerminationBound ==
    /\ spin = FALSE
    /\ extend_loops_end(T, empty_table(len(T) * 2 + 1), 0)
    /\ \A k \in AllKeys :
          /\ insert_loop_ends(T, k)
          /\ probe_steps(T, k, hash_key(k) % len(T), len(T)) <= len(T)

\* The table is full for the second time (23 of 23 slots) and the insert of
\* a key that is in no slot grows it to 47 slots before its loop starts;
\* the lookup of that key has inspected all 23 slots.
WitTerminationBound ==
    /\ len(T) = (INIT_CAPACITY * 2 + 1)
    /\ len_of_used(T) = len(T)
    /\ \E k \in CallKeys :
          /\ get_index(T, k) = None
          /\ probe_steps(T, k, hash_key(k) % len(T), len(T)) = len(T)
          /\ len(probed_table(T)) = len(T) * 2 + 1
          /\ insert_loop_ends(T, k)

\* C18: lookup on a completely full table.  When every slot is occupied,
\* get, get_mut and remove of a key stored in no slot return absence (and
\* remove changes nothing) after all len() slots have been inspected, the
\* loop ending on the home index again; and a key whose only slot is the
\* last of its probe order, len() - 1 steps past its home index, is found.
FullTableLookup ==
    (Taken = DOMAIN cells /\ len_of_used(T) = len(T)) =>
        \A k \in AllKeys :
            LET n == len(T)
                home == hash_key(k) % n
            IN  /\ (\A i \in DOMAIN cells : cells[i].key # k) =>
                      /\ get(T, k) = None
                      /\ get_mut(T, k) = None
                      /\ remove_ret(T, k) = None
                      /\ remove(T, k) = T
                      /\ probe_steps(T, k, home, n) = n
                      /\ probe(cells, k, home, n) = home
                /\ \A j \in DOMAIN cells :
                      (cells[j].key = k /\ ProbeDist(j, home, n) = n - 1
                       /\ \A i \in DOMAIN cells \ {j} : cells[i].key # k) =>
                          /\ get_index(T, k) = Some(j)
                          /\ get(T, k) = Some(cells[j].value)
                          /\ remove_ret(T, k) = Some(cells[j].value)

\* A full table of 11 slots in which one key sits in the last slot of its
\* probe order and another key is in no slot.
WitFullTableLookup ==
    /\ Taken = DOMAIN cells
    /\ len(T) = INIT_CAPACITY
    /\ \E k \in Keys, j \in DOMAIN cells :
          /\ cells[j].key = k
          /\ ProbeDist(j, hash_key(k) % len(T), len(T)) = len(T) - 1
          /\ get_index(T, k) = Some(j)
    /\ \E k \in Keys :
          /\ \A i \in DOMAIN cells : cells[i].key # k
          /\ get(T, k) = None
          /\ probe_steps(T, k, hash_key(k) % len(T), len(T)) = len(T)

====
